---- MODULE Spec2Model ----
(***************************************************************************)
(* Model of the sermon pipeline of src/main.py: validate, probe the        *)
(* duration, speed the audio up when it is too long, transcribe (or reuse  *)
(* the cached transcript), summarize, exit.                                *)
(*                                                                         *)
(* Text and file names are sequences of string tokens; a file name keeps   *)
(* its dots as "." tokens so that Path.with_suffix is modelled by what it  *)
(* does.  Durations are integers in units of 1/Scale second; the speed     *)
(* multiplier is kept in tenths (new_speed = tenths / 10).                 *)
(***************************************************************************)
EXTENDS Integers, Sequences, FiniteSets, TLC

\* ---------------------------------------------------------------- bounds
Scale == 10
MaxStep == 24
MaxRuns == 2

\* ------------------------------------------------------- program constants
WHISPER1_MAX_AUDIO_DURATION_SEC == 1500

Procs == {"A", "B"}

\* Optional[str]: None is the empty tuple, a supplied string s is <<s>>.
None == << >>
Some(s) == <<s>>

DefaultInstruction == <<"Start it with a question to the listener.">>
Framing == <<"The following is a transcript of a sunday sermon. ",
             "Please summarize it in a brief paragraph. ">>
SeoRequest == <<"Also generate an SEO keyphrase that can be used to help people search for this sermon on the internet:\n\n">>

\* ------------------------------------------------------------ input sets
SourceNames == { <<"sermon", ".", "mp3">>,
                 <<"sermon">>,
                 <<"sermon", ".", "transcript", ".", "txt">> }

Limit == WHISPER1_MAX_AUDIO_DURATION_SEC * Scale
Step == Limit \div 10

\* the durations of the pipeline runs: under, at and over the limit
Durations == {Limit - 1, Limit, Limit + 1, Step * 20}

\* the durations the multiplier is computed for: around every multiple of
\* 150 s up to 150 s * MaxStep, and the two examples of the documentation
DurationsWide ==
    {Step * k + e : k \in 10..MaxStep, e \in {-1, 0, 1}}
    \cup {(WHISPER1_MAX_AUDIO_DURATION_SEC + 1) * Scale, 3200 * Scale}

Instructions == {None, Some(<< >>), Some(<<"Be", " brief">>)}
Transcripts == { <<"amen">>, <<"hello", " world.">> }
Summaries == { <<"summary one">>, <<"summary two">> }

SourceAudio == <<"audio">>
StaleTranscript == <<"stale">>
OldSummary == <<"old summary">>
PartialAudio == <<"partial">>

\* --------------------------------------------------------- pure functions
\* pathlib's PurePath.suffix: the last dot counts only when it is neither
\* the first nor the last character of the name.
RECURSIVE LastDot(_, _)
LastDot(name, i) ==
    IF i = 0 THEN 0
    ELSE IF name[i] = "." THEN i
    ELSE LastDot(name, i - 1)

Stem(name) ==
    LET j == LastDot(name, Len(name))
    IN IF 1 < j /\ j < Len(name) THEN SubSeq(name, 1, j - 1) ELSE name

with_suffix(name, suffix) == Stem(name) \o suffix

\* a division that rounds down where the code rounds up
FloorDiv(a, b) == a \div b

CeilDiv(a, b) == (a + b - 1) \div b

\* a threshold test that sends a file of exactly the limit to the adjuster
OverOrAtLimit(length_sec) == length_sec < Limit

\* length_sec <= WHISPER1_MAX_AUDIO_DURATION_SEC
WithinLimit(length_sec) == length_sec <= Limit

\* ceil(length_sec / 1500 * 10), i.e. new_speed in tenths
new_speed(length_sec) == CeilDiv(length_sec * 10, Limit)

\* f".x{new_speed}.mp3": a float k/10 prints as "<k div 10>.<k mod 10>"
SpeedSuffix(tenths) ==
    <<".", "x", ToString(tenths \div 10), ".", ToString(tenths % 10), ".", "mp3">>

length_adjusted_audio_file(audio_file, tenths) ==
    with_suffix(audio_file, SpeedSuffix(tenths))

transcription_file(audio_file) ==
    with_suffix(audio_file, <<".", "transcript", ".", "txt">>)

\* a summary written over the audio file it was made from
summary_file_in_place(audio_file) == audio_file

summary_file(audio_file) ==
    with_suffix(audio_file, <<".", "summary", ".", "txt">>)

\* a summarize_text that ignores the caller's instruction
InstructionIgnored(additional_instructions) == DefaultInstruction

\* the instruction summarize_text puts in the prompt
Instruction(additional_instructions) ==
    IF additional_instructions # None /\ Len(additional_instructions[1]) > 0
    THEN additional_instructions[1]
    ELSE DefaultInstruction

Prompt(text, additional_instructions) ==
    Framing \o Instruction(additional_instructions) \o <<". ">>
            \o SeoRequest \o text

\* the audio ffmpeg writes for a tempo of tenths/10
SpedAudio(tenths) == <<"audio", "atempo", ToString(tenths)>>

\* a write that leaves a file that already has content as it is
OverlayKeepFirst(old, data) == IF old = << >> THEN data ELSE old

\* a write() of data at offset 0 of a file that holds old
Overlay(old, data) ==
    IF Len(data) >= Len(old) THEN data
    ELSE data \o SubSeq(old, Len(data) + 1, Len(old))

\* the input of the transcribe and summarize stages for source src
ProcessedPath(audio_file, length_sec) ==
    IF WithinLimit(length_sec) THEN audio_file
    ELSE length_adjusted_audio_file(audio_file, new_speed(length_sec))

\* ------------------------------------------------------------------ state
VARIABLES
    src,          \* the audio source path given on the command line
    duration,     \* the duration ffprobe reports for the source
    fs,           \* the directory: file name -> content
    pc,           \* each invocation's position
    instructions, \* args.instructions, drawn where the run first reads it
    length_sec,   \* the probed duration (0: not probed)
    speed,        \* new_speed in tenths (0: not computed)
    processed_audio, \* result of process_audio_file (<<>>: none yet)
    transcript,   \* result of get_transcript
    summary,      \* result of summarize_text
    prompt,       \* the content sent to the summarization API
    calls,        \* external calls made by the current run
    exit,         \* exit code (-1: still running or never run)
    out,          \* the error line printed by main
    failedAt,     \* the stage that raised ("none" when no stage did)
    fsAtStart,    \* the directory as it was when the run started
    cacheHit,     \* the run found the transcript file
    writeLog,     \* completed transcript writes, in order
    trace,        \* the stages the current run has entered, in order
    runs          \* number of runs started

vars == <<src, duration, fs, pc, instructions, length_sec, speed,
          processed_audio, transcript, summary, prompt, calls, exit, out,
          failedAt, fsAtStart, cacheHit, writeLog, trace, runs>>

NoCalls == [probe |-> 0, adjust |-> 0, transcribe |-> 0, summarize |-> 0]

Exists(path) == path \in DOMAIN fs

\* fs with path holding content
WriteFile(path, content) ==
    [q \in DOMAIN fs \cup {path} |-> IF q = path THEN content ELSE fs[q]]

\* the files that may be there before the first run
Candidates(s, d) ==
    {s, ProcessedPath(s, d), transcription_file(ProcessedPath(s, d)),
     summary_file(ProcessedPath(s, d))}

InitialContent(s, path) ==
    IF path = s THEN SourceAudio
    ELSE IF path[Len(path)] = "mp3" THEN <<"audio", "earlier">>
    ELSE IF path[Len(path) - 2] = "transcript" THEN StaleTranscript
    ELSE OldSummary

Locals ==
    /\ pc = [p \in Procs |-> "idle"]
    /\ instructions = [p \in Procs |-> None]
    /\ length_sec = [p \in Procs |-> 0]
    /\ speed = [p \in Procs |-> 0]
    /\ processed_audio = [p \in Procs |-> << >>]
    /\ transcript = [p \in Procs |-> << >>]
    /\ summary = [p \in Procs |-> << >>]
    /\ prompt = [p \in Procs |-> << >>]
    /\ calls = [p \in Procs |-> NoCalls]
    /\ exit = [p \in Procs |-> -1]
    /\ out = [p \in Procs |-> << >>]
    /\ failedAt = [p \in Procs |-> "none"]
    /\ cacheHit = [p \in Procs |-> FALSE]
    /\ writeLog = << >>
    /\ trace = [p \in Procs |-> << >>]
    /\ runs = 0

Init ==
    /\ src \in SourceNames
    /\ duration \in Durations
    /\ \E present \in SUBSET Candidates(src, duration) :
          fs = [q \in present |-> InitialContent(src, q)]
    /\ fsAtStart = [p \in Procs |-> fs]
    /\ Locals

\* ---------------------------------------------------------------- actions
\* main's handlers: an exception ends the run with exit code 1
ErrorLine(kind, msg) ==
    IF kind = "FileNotFoundError" THEN <<"Error: ">> \o msg
    ELSE <<"An unexpected error occurred: ">> \o msg

\* a handler that reports the error and still returns 0
FailExitZero(p, stage, kind, msg) ==
    /\ pc' = [pc EXCEPT ![p] = "done"]
    /\ exit' = [exit EXCEPT ![p] = 0]
    /\ out' = [out EXCEPT ![p] = ErrorLine(kind, msg)]
    /\ failedAt' = [failedAt EXCEPT ![p] = stage]

Fail(p, stage, kind, msg) ==
    /\ pc' = [pc EXCEPT ![p] = "done"]
    /\ exit' = [exit EXCEPT ![p] = 1]
    /\ out' = [out EXCEPT ![p] = ErrorLine(kind, msg)]
    /\ failedAt' = [failedAt EXCEPT ![p] = stage]

Count(p, what) == [calls EXCEPT ![p][what] = @ + 1]

\* the driver's stage of a position
StageOf(at) ==
    CASE at = "validate" -> "validate"
      [] at = "probe" -> "probe"
      [] at \in {"adjust", "ffmpeg"} -> "maybe-adjust-speed"
      [] at \in {"transcribe", "t_call", "t_open", "t_write"} ->
            "transcribe-or-cache"
      [] at \in {"summarize", "s_open", "s_write"} -> "summarize"
      [] OTHER -> at

\* the history of the stages entered by the run of p
Record(p) ==
    trace' = [trace EXCEPT ![p] =
                IF pc'[p] = "validate" THEN <<"validate">>
                ELSE IF pc'[p] = "done" \/ StageOf(pc'[p]) = StageOf(pc[p])
                THEN @
                ELSE Append(@, StageOf(pc'[p]))]

\* a new invocation of main: parse_arguments
Begin(p) ==
    /\ pc[p] \in {"idle", "done"}
    /\ runs < MaxRuns
    /\ runs' = runs + 1
    /\ instructions' = [instructions EXCEPT ![p] = None]
    /\ pc' = [pc EXCEPT ![p] = "validate"]
    /\ length_sec' = [length_sec EXCEPT ![p] = 0]
    /\ speed' = [speed EXCEPT ![p] = 0]
    /\ processed_audio' = [processed_audio EXCEPT ![p] = << >>]
    /\ transcript' = [transcript EXCEPT ![p] = << >>]
    /\ summary' = [summary EXCEPT ![p] = << >>]
    /\ prompt' = [prompt EXCEPT ![p] = << >>]
    /\ calls' = [calls EXCEPT ![p] = NoCalls]
    /\ exit' = [exit EXCEPT ![p] = -1]
    /\ out' = [out EXCEPT ![p] = << >>]
    /\ failedAt' = [failedAt EXCEPT ![p] = "none"]
    /\ cacheHit' = [cacheHit EXCEPT ![p] = FALSE]
    /\ fsAtStart' = [fsAtStart EXCEPT ![p] = fs]
    /\ Record(p)
    /\ UNCHANGED <<src, duration, fs, writeLog>>

\* one invocation after the other
Start(p) ==
    /\ \A q \in Procs : pc[q] \in {"idle", "done"}
    /\ Begin(p)

\* two invocations that may overlap: each slot is one invocation
StartConcurrent(p) ==
    /\ pc[p] = "idle"
    /\ Begin(p)

\* a validate stage that lets a missing source through
ValidateNoCheck(p) ==
    /\ pc[p] = "validate"
    /\ pc' = [pc EXCEPT ![p] = "probe"]
    /\ Record(p)
    /\ UNCHANGED <<src, duration, fs, instructions, length_sec, speed,
                   processed_audio, transcript, summary, prompt, calls,
                   exit, out, failedAt, fsAtStart, cacheHit, writeLog, runs>>

\* process_audio_file: the existence check of the source
Validate(p) ==
    /\ pc[p] = "validate"
    /\ IF Exists(src)
       THEN /\ pc' = [pc EXCEPT ![p] = "probe"]
            /\ UNCHANGED <<exit, out, failedAt>>
       ELSE Fail(p, "validate", "FileNotFoundError",
                 <<"Audio file does not exist: ">> \o src)
    /\ Record(p)
    /\ UNCHANGED <<src, duration, fs, instructions, length_sec, speed,
                   processed_audio, transcript, summary, prompt, calls,
                   fsAtStart, cacheHit, writeLog, runs>>

\* get_audio_length: ffprobe and float()
Probe(p) ==
    /\ pc[p] = "probe"
    /\ calls' = Count(p, "probe")
    /\ \/ /\ length_sec' = [length_sec EXCEPT ![p] = duration]
          /\ pc' = [pc EXCEPT ![p] = "adjust"]
          /\ UNCHANGED <<exit, out, failedAt>>
       \/ /\ \E kind \in {"CalledProcessError", "ValueError"} :
                Fail(p, "probe", kind, <<kind>>)
          /\ UNCHANGED length_sec
       \/ /\ Fail(p, "probe", "FileNotFoundError",
                  <<"[Errno 2] No such file or directory: ", "ffprobe">>)
          /\ UNCHANGED length_sec
    /\ Record(p)
    /\ UNCHANGED <<src, duration, fs, instructions, speed, processed_audio,
                   transcript, summary, prompt, fsAtStart, cacheHit,
                   writeLog, runs>>

\* a process_audio_file that runs ffmpeg without looking for its output
MaybeAdjustNoReuse(p) ==
    /\ pc[p] = "adjust"
    /\ IF WithinLimit(length_sec[p])
       THEN /\ processed_audio' = [processed_audio EXCEPT ![p] = src]
            /\ pc' = [pc EXCEPT ![p] = "transcribe"]
            /\ UNCHANGED speed
       ELSE /\ speed' = [speed EXCEPT ![p] = new_speed(length_sec[p])]
            /\ pc' = [pc EXCEPT ![p] = "ffmpeg"]
            /\ UNCHANGED processed_audio
    /\ Record(p)
    /\ UNCHANGED <<src, duration, fs, instructions, length_sec, transcript,
                   summary, prompt, calls, exit, out, failedAt, fsAtStart,
                   cacheHit, writeLog, runs>>

\* process_audio_file after the probe: threshold test, multiplier, reuse
MaybeAdjust(p) ==
    /\ pc[p] = "adjust"
    /\ IF WithinLimit(length_sec[p])
       THEN /\ processed_audio' = [processed_audio EXCEPT ![p] = src]
            /\ pc' = [pc EXCEPT ![p] = "transcribe"]
            /\ UNCHANGED speed
       ELSE LET k == new_speed(length_sec[p])
                target == length_adjusted_audio_file(src, k)
            IN /\ speed' = [speed EXCEPT ![p] = k]
               /\ IF Exists(target)
                  THEN /\ processed_audio' =
                              [processed_audio EXCEPT ![p] = target]
                       /\ pc' = [pc EXCEPT ![p] = "transcribe"]
                  ELSE /\ pc' = [pc EXCEPT ![p] = "ffmpeg"]
                       /\ UNCHANGED processed_audio
    /\ Record(p)
    /\ UNCHANGED <<src, duration, fs, instructions, length_sec, transcript,
                   summary, prompt, calls, exit, out, failedAt, fsAtStart,
                   cacheHit, writeLog, runs>>

\* change_audio_speed: ffmpeg -y; a failed ffmpeg may leave a partial output
ChangeAudioSpeed(p) ==
    LET target == length_adjusted_audio_file(src, speed[p])
    IN /\ pc[p] = "ffmpeg"
       /\ calls' = Count(p, "adjust")
       /\ \/ /\ fs' = WriteFile(target, SpedAudio(speed[p]))
             /\ processed_audio' = [processed_audio EXCEPT ![p] = target]
             /\ pc' = [pc EXCEPT ![p] = "transcribe"]
             /\ UNCHANGED <<exit, out, failedAt>>
          \/ /\ Fail(p, "adjust", "CalledProcessError", <<"CalledProcessError">>)
             /\ \/ UNCHANGED fs
                \/ fs' = WriteFile(target, PartialAudio)
             /\ UNCHANGED processed_audio
          \/ /\ Fail(p, "adjust", "FileNotFoundError",
                     <<"[Errno 2] No such file or directory: ", "ffmpeg">>)
             /\ UNCHANGED <<fs, processed_audio>>
       /\ Record(p)
       /\ UNCHANGED <<src, duration, instructions, length_sec, speed,
                      transcript, summary, prompt, fsAtStart, cacheHit,
                      writeLog, runs>>

\* a get_transcript that transcribes without looking for the cached file
GetTranscriptNoCache(p) ==
    /\ pc[p] = "transcribe"
    /\ pc' = [pc EXCEPT ![p] = "t_call"]
    /\ Record(p)
    /\ UNCHANGED <<src, duration, fs, instructions, length_sec, speed,
                   processed_audio, transcript, summary, prompt, calls,
                   exit, out, failedAt, fsAtStart, cacheHit, writeLog, runs>>

\* get_transcript: the cache check and the read of a cached transcript
GetTranscript(p) ==
    LET tf == transcription_file(processed_audio[p])
    IN /\ pc[p] = "transcribe"
       /\ IF Exists(tf)
          THEN \/ /\ transcript' = [transcript EXCEPT ![p] = fs[tf]]
                  /\ cacheHit' = [cacheHit EXCEPT ![p] = TRUE]
                  /\ pc' = [pc EXCEPT ![p] = "summarize"]
                  /\ UNCHANGED <<exit, out, failedAt>>
               \/ /\ Fail(p, "transcribe", "OSError", <<"OSError">>)
                  /\ UNCHANGED <<transcript, cacheHit>>
          ELSE /\ pc' = [pc EXCEPT ![p] = "t_call"]
               /\ UNCHANGED <<transcript, cacheHit, exit, out, failedAt>>
       /\ Record(p)
       /\ UNCHANGED <<src, duration, fs, instructions, length_sec, speed,
                      processed_audio, summary, prompt, calls, fsAtStart,
                      writeLog, runs>>

\* transcribe_audio: the transcription API call
TranscribeAudio(p) ==
    /\ pc[p] = "t_call"
    /\ calls' = Count(p, "transcribe")
    /\ \/ /\ \E t \in Transcripts : transcript' = [transcript EXCEPT ![p] = t]
          /\ pc' = [pc EXCEPT ![p] = "t_open"]
          /\ UNCHANGED <<exit, out, failedAt>>
       \/ /\ Fail(p, "transcribe", "APIError", <<"APIError">>)
          /\ UNCHANGED transcript
    /\ Record(p)
    /\ UNCHANGED <<src, duration, fs, instructions, length_sec, speed,
                   processed_audio, summary, prompt, fsAtStart, cacheHit,
                   writeLog, runs>>

\* open(path, "w"): creates or truncates the file
OpenForWrite(p, stage, path, next) ==
    \/ /\ fs' = WriteFile(path, << >>)
       /\ pc' = [pc EXCEPT ![p] = next]
       /\ UNCHANGED <<exit, out, failedAt>>
    \/ /\ Fail(p, stage, "OSError", <<"OSError">>)
       /\ UNCHANGED fs

\* get_transcript: transcription_file.open("w")
TranscriptOpen(p) ==
    /\ pc[p] = "t_open"
    /\ OpenForWrite(p, "transcribe", transcription_file(processed_audio[p]),
                    "t_write")
    /\ Record(p)
    /\ UNCHANGED <<src, duration, instructions, length_sec, speed,
                   processed_audio, transcript, summary, prompt, calls,
                   fsAtStart, cacheHit, writeLog, runs>>

\* get_transcript: f.write(transcript) and the close of the file
TranscriptWrite(p) ==
    LET tf == transcription_file(processed_audio[p])
    IN /\ pc[p] = "t_write"
       /\ \/ /\ fs' = WriteFile(tf, Overlay(fs[tf], transcript[p]))
             /\ writeLog' = Append(writeLog,
                                   [proc |-> p, content |-> transcript[p]])
             /\ pc' = [pc EXCEPT ![p] = "summarize"]
             /\ UNCHANGED <<exit, out, failedAt>>
          \/ /\ Fail(p, "transcribe", "OSError", <<"OSError">>)
             /\ UNCHANGED <<fs, writeLog>>
       /\ Record(p)
       /\ UNCHANGED <<src, duration, instructions, length_sec, speed,
                      processed_audio, transcript, summary, prompt, calls,
                      fsAtStart, cacheHit, runs>>

\* a summarize stage that is skipped when a summary file is already there
SummarizeTextCached(p) ==
    /\ pc[p] = "summarize"
    /\ IF Exists(summary_file(processed_audio[p]))
       THEN /\ pc' = [pc EXCEPT ![p] = "done"]
            /\ exit' = [exit EXCEPT ![p] = 0]
            /\ UNCHANGED <<calls, instructions, prompt, summary, out, failedAt>>
       ELSE /\ calls' = Count(p, "summarize")
            /\ \E i \in Instructions :
                  /\ instructions' = [instructions EXCEPT ![p] = i]
                  /\ prompt' = [prompt EXCEPT ![p] = Prompt(transcript[p], i)]
            /\ \/ /\ \E s \in Summaries :
                        summary' = [summary EXCEPT ![p] = s]
                  /\ pc' = [pc EXCEPT ![p] = "s_open"]
                  /\ UNCHANGED <<exit, out, failedAt>>
               \/ /\ Fail(p, "summarize", "APIError", <<"APIError">>)
                  /\ UNCHANGED summary
    /\ Record(p)
    /\ UNCHANGED <<src, duration, fs, length_sec, speed,
                   processed_audio, transcript, fsAtStart, cacheHit,
                   writeLog, runs>>

\* summarize_text: the summarization API call
SummarizeText(p) ==
    /\ pc[p] = "summarize"
    /\ calls' = Count(p, "summarize")
    /\ \E i \in Instructions :
          /\ instructions' = [instructions EXCEPT ![p] = i]
          /\ prompt' = [prompt EXCEPT ![p] = Prompt(transcript[p], i)]
    /\ \/ /\ \E s \in Summaries : summary' = [summary EXCEPT ![p] = s]
          /\ pc' = [pc EXCEPT ![p] = "s_open"]
          /\ UNCHANGED <<exit, out, failedAt>>
       \/ /\ Fail(p, "summarize", "APIError", <<"APIError">>)
          /\ UNCHANGED summary
    /\ Record(p)
    /\ UNCHANGED <<src, duration, fs, length_sec, speed,
                   processed_audio, transcript, fsAtStart, cacheHit,
                   writeLog, runs>>

\* generate_and_save_summary: summary_file.open("w")
SummaryOpen(p) ==
    /\ pc[p] = "s_open"
    /\ OpenForWrite(p, "summarize", summary_file(processed_audio[p]),
                    "s_write")
    /\ Record(p)
    /\ UNCHANGED <<src, duration, instructions, length_sec, speed,
                   processed_audio, transcript, summary, prompt, calls,
                   fsAtStart, cacheHit, writeLog, runs>>

\* generate_and_save_summary: f.write(summary), the close, and return 0
SummaryWrite(p) ==
    LET sf == summary_file(processed_audio[p])
    IN /\ pc[p] = "s_write"
       /\ \/ /\ fs' = WriteFile(sf, Overlay(fs[sf], summary[p]))
             /\ pc' = [pc EXCEPT ![p] = "done"]
             /\ exit' = [exit EXCEPT ![p] = 0]
             /\ UNCHANGED <<out, failedAt>>
          \/ /\ Fail(p, "summarize", "OSError", <<"OSError">>)
             /\ UNCHANGED fs
       /\ Record(p)
       /\ UNCHANGED <<src, duration, instructions, length_sec, speed,
                      processed_audio, transcript, summary, prompt, calls,
                      fsAtStart, cacheHit, writeLog, runs>>

Stages(p) ==
    \/ Validate(p)
    \/ Probe(p)
    \/ MaybeAdjust(p)
    \/ ChangeAudioSpeed(p)
    \/ GetTranscript(p)
    \/ TranscribeAudio(p)
    \/ TranscriptOpen(p)
    \/ TranscriptWrite(p)
    \/ SummarizeText(p)
    \/ SummaryOpen(p)
    \/ SummaryWrite(p)

\* runs that follow one another are runs of one invocation slot
Next == \E p \in {"A"} : Start(p) \/ Stages(p)

Spec == Init /\ [][Next]_vars

\* the same program with invocations that may run at the same time,
\* started on a source with no cached transcript
InitConcurrent ==
    /\ src = <<"sermon", ".", "mp3">>
    /\ duration \in {Limit, Limit + 1}
    /\ \E present \in SUBSET {ProcessedPath(src, duration)} :
          fs = [q \in present \cup {src} |-> InitialContent(src, q)]
    /\ fsAtStart = [p \in Procs |-> fs]
    /\ Locals

NextConcurrent ==
    \E p \in Procs : StartConcurrent(p) \/ Stages(p)

SpecConcurrent == InitConcurrent /\ [][NextConcurrent]_vars

\* process_audio_file alone, over the wide set of durations
InitSpeed ==
    /\ src \in SourceNames
    /\ duration \in DurationsWide
    /\ \E present \in SUBSET {ProcessedPath(src, duration)} :
          fs = [q \in present \cup {src} |-> InitialContent(src, q)]
    /\ fsAtStart = [p \in Procs |-> fs]
    /\ Locals

NextSpeed ==
    \E p \in {"A"} :
        \/ Start(p)
        \/ Validate(p)
        \/ Probe(p)
        \/ MaybeAdjust(p)
        \/ ChangeAudioSpeed(p)

SpecSpeed == InitSpeed /\ [][NextSpeed]_vars

\* ------------------------------------------------------------ properties
Running(p) == pc[p] \notin {"idle", "done"}
Finished(p) == pc[p] = "done"

\* C1: for every probed duration d > 1500 s the multiplier m = k/10 that
\* process_audio_file computes is the smallest multiple of 0.1 that is
\* >= d/1500 (k = ceil(d / 1500 * 10)), it is at least 1.1, and d / m is at
\* most 1500; 3200 s gives 2.2 and 1501 s gives 1.1.
C1_Multiplier ==
    \A p \in Procs :
        speed[p] # 0 =>
            LET d == length_sec[p]
                k == speed[p]
            IN /\ d > Limit
               /\ k * Limit >= 10 * d
               /\ (k - 1) * Limit < 10 * d
               /\ k >= 11
               /\ 10 * d <= k * WHISPER1_MAX_AUDIO_DURATION_SEC * Scale
               /\ (d = 3200 * Scale => k = 22)
               /\ (d = (WHISPER1_MAX_AUDIO_DURATION_SEC + 1) * Scale => k = 11)

\* a duration of exactly 1650 s (1.1 times the limit) got the multiplier 1.1
C1_Witness ==
    /\ length_sec["A"] = Step * 11
    /\ speed["A"] = 11
    /\ pc["A"] \in {"ffmpeg", "transcribe"}

\* the files a run has created or changed since it started
Touched(p) ==
    {q \in DOMAIN fs : q \notin DOMAIN fsAtStart[p] \/ fs[q] # fsAtStart[p][q]}

IsAudioName(q) == q[Len(q)] = "mp3"

\* C2: a run whose probed duration is <= 1500 s (1500 included) never
\* invokes the speed adjuster and never computes, checks or creates a
\* speed-adjusted file; process_audio_file returns the source path, and the
\* transcript and summary are named from the source's stem.
C2_ShortPassThrough ==
    \A p \in Procs :
        (length_sec[p] # 0 /\ length_sec[p] <= Limit /\ pc[p] # "adjust") =>
            /\ calls[p].adjust = 0
            /\ speed[p] = 0
            /\ pc[p] # "ffmpeg"
            /\ processed_audio[p] = src
            /\ \A q \in Touched(p) :
                  /\ ~ IsAudioName(q)
                  /\ q \in {Stem(src) \o <<".", "transcript", ".", "txt">>,
                            Stem(src) \o <<".", "summary", ".", "txt">>}
            /\ (calls[p].transcribe = 1 /\ pc[p] \in {"summarize", "s_open", "s_write"}) =>
                  fs[Stem(src) \o <<".", "transcript", ".", "txt">>] = transcript[p]
            /\ exit[p] = 0 =>
                  fs[Stem(src) \o <<".", "summary", ".", "txt">>] = summary[p]

\* a source of exactly 1500 s went through the whole pipeline unadjusted
C2_Witness ==
    /\ length_sec["A"] = Limit
    /\ exit["A"] = 0
    /\ calls["A"].transcribe = 1

\* the transcript path of the source's processed audio
ExpectedTranscript == transcription_file(ProcessedPath(src, duration))

EndsWith(text, tail) ==
    /\ Len(text) >= Len(tail)
    /\ SubSeq(text, Len(text) - Len(tail) + 1, Len(text)) = tail

\* C3: in a sequence of runs on the same source, a run that starts when the
\* transcript file exists at <input-stem>.transcript.txt never calls the
\* transcription API and never rewrites the file, whatever its content, and
\* passes the cached content to the summarizer; a run that wrote the file
\* leaves it as written.
C3_TranscriptCache ==
    \A p \in Procs :
        /\ (pc[p] # "idle" /\ ExpectedTranscript \in DOMAIN fsAtStart[p]) =>
              /\ calls[p].transcribe = 0
              /\ pc[p] \notin {"t_call", "t_open", "t_write"}
              /\ Exists(ExpectedTranscript)
              /\ fs[ExpectedTranscript] = fsAtStart[p][ExpectedTranscript]
              /\ calls[p].summarize = 1 =>
                    /\ cacheHit[p]
                    /\ transcript[p] = fs[ExpectedTranscript]
                    /\ EndsWith(prompt[p], fs[ExpectedTranscript])
        /\ (/\ calls[p].transcribe = 1
            /\ pc[p] \in {"summarize", "s_open", "s_write", "done"}
            /\ failedAt[p] # "transcribe") =>
              /\ Exists(ExpectedTranscript)
              /\ fs[ExpectedTranscript] = transcript[p]

\* the second run summarized the transcript that the first run had written
C3_Witness ==
    /\ runs = 2
    /\ cacheHit["A"]
    /\ calls["A"].transcribe = 0
    /\ calls["A"].summarize = 1
    /\ Exists(ExpectedTranscript)
    /\ fs[ExpectedTranscript] \in Transcripts

ObtainedTranscript(p) ==
    \/ pc[p] \in {"s_open", "s_write"}
    \/ pc[p] = "done" /\ failedAt[p] \in {"summarize", "none"}

\* C4: every run that obtains a transcript, cached or fresh, calls the
\* summarization API exactly once, whatever files exist, and a run that
\* completes has overwritten the summary file with the result of its call.
C4_AlwaysSummarize ==
    \A p \in Procs :
        /\ calls[p].summarize <= 1
        /\ ObtainedTranscript(p) => calls[p].summarize = 1
        /\ exit[p] = 0 =>
              /\ calls[p].summarize = 1
              /\ summary[p] \in Summaries
              /\ Exists(summary_file(processed_audio[p]))
              /\ fs[summary_file(processed_audio[p])] = summary[p]

\* the second run found a transcript and a summary and summarized again
C4_Witness ==
    /\ runs = 2
    /\ exit["A"] = 0
    /\ cacheHit["A"]
    /\ summary_file(processed_audio["A"]) \in DOMAIN fsAtStart["A"]
    /\ fsAtStart["A"][summary_file(processed_audio["A"])] \in Summaries
    /\ calls["A"].summarize = 1

\* C5: a run on a source path that does not exist ends with exit code 1 and
\* an error line that ends with the path, makes no external call (probe,
\* speed adjust, transcription, summarization) and changes no file.
C5_MissingSource ==
    \A p \in Procs :
        (pc[p] # "idle" /\ src \notin DOMAIN fsAtStart[p]) =>
            /\ calls[p] = NoCalls
            /\ fs = fsAtStart[p]
            /\ pc[p] \in {"validate", "done"}
            /\ Finished(p) =>
                  /\ exit[p] = 1
                  /\ out[p][1] = "Error: "
                  /\ EndsWith(out[p], src)

\* a run on a missing source has ended
C5_Witness ==
    /\ Finished("A")
    /\ src \notin DOMAIN fsAtStart["A"]
    /\ exit["A"] = 1

StageOrder ==
    <<"validate", "probe", "maybe-adjust-speed", "transcribe-or-cache",
      "summarize">>

\* <original-stem>.x<multiplier>.mp3 for a multiplier of tenths/10
AdjustedName(tenths) ==
    Stem(src) \o <<".", "x", ToString(tenths \div 10), ".",
                   ToString(tenths % 10), ".", "mp3">>

TranscriptOf(audio) == Stem(audio) \o <<".", "transcript", ".", "txt">>
SummaryOf(audio) == Stem(audio) \o <<".", "summary", ".", "txt">>

\* the kind of exception main reported
ErrorKind(p) == out[p][2]

\* the stages run in the fixed order, a failure stops the run with exit
\* code 1 before any later call or write, earlier artifacts stay, and exit
\* code 0 means every stage completed
C6_OrderAndAbort(p) ==
    LET adj == AdjustedName(speed[p])
        tf == TranscriptOf(ProcessedPath(src, duration))
        sf == SummaryOf(ProcessedPath(src, duration))
    IN /\ trace[p] = SubSeq(StageOrder, 1, Len(trace[p]))
       /\ Running(p) => trace[p][Len(trace[p])] = StageOf(pc[p])
       /\ Running(p) => exit[p] = -1 /\ failedAt[p] = "none"
       /\ Finished(p) =>
            /\ exit[p] \in {0, 1}
            /\ exit[p] = 0 <=> failedAt[p] = "none"
            /\ exit[p] = 1 => trace[p][Len(trace[p])] = failedAt[p]
                               \/ /\ failedAt[p] = "adjust"
                                  /\ trace[p][Len(trace[p])] = "maybe-adjust-speed"
                               \/ /\ failedAt[p] = "transcribe"
                                  /\ trace[p][Len(trace[p])] = "transcribe-or-cache"
            /\ exit[p] = 0 =>
                 /\ trace[p] = StageOrder
                 /\ calls[p].probe = 1
                 /\ calls[p].summarize = 1
                 /\ cacheHit[p] \/ calls[p].transcribe = 1
                 /\ fs[sf] = summary[p]
            /\ failedAt[p] = "validate" =>
                 calls[p] = NoCalls /\ Touched(p) = {}
            /\ failedAt[p] = "probe" =>
                 /\ calls[p] = [NoCalls EXCEPT !.probe = 1]
                 /\ Touched(p) = {}
            /\ failedAt[p] = "adjust" =>
                 /\ calls[p].transcribe = 0 /\ calls[p].summarize = 0
                 /\ Touched(p) \subseteq {adj}
            /\ failedAt[p] = "transcribe" =>
                 /\ calls[p].summarize = 0
                 /\ Touched(p) \subseteq {adj, tf}
                 /\ calls[p].adjust = 1 => fs[adj] = SpedAudio(speed[p])
            /\ failedAt[p] = "summarize" =>
                 /\ Touched(p) \subseteq {adj, tf, sf}
                 /\ calls[p].adjust = 1 => fs[adj] = SpedAudio(speed[p])
                 /\ calls[p].transcribe = 1 => fs[tf] = transcript[p]

\* the artifact of the stage that failed
OwnArtifact(p) ==
    CASE failedAt[p] = "adjust" -> AdjustedName(speed[p])
      [] failedAt[p] = "transcribe" -> TranscriptOf(ProcessedPath(src, duration))
      [] failedAt[p] = "summarize" -> SummaryOf(ProcessedPath(src, duration))
      [] OTHER -> << >>

\* C6 as claimed: the order and abort rules, and the artifact of the stage
\* that failed is never written.
C6_Original ==
    \A p \in Procs :
        /\ C6_OrderAndAbort(p)
        /\ Finished(p) /\ exit[p] = 1 => OwnArtifact(p) \notin Touched(p)

\* C6: the stages run in the order validate, probe, maybe-adjust-speed,
\* transcribe-or-cache, summarize; a failing stage ends the run with exit
\* code 1, no later call or write happens, earlier artifacts stay, and exit
\* code 0 means all stages completed.  The artifact of the failed stage is
\* untouched when the stage's API call or the open of its file failed; a
\* write that fails after the open leaves the file empty, and a failed
\* ffmpeg leaves its output absent or partial.
C6_StagesAbort ==
    \A p \in Procs :
        /\ C6_OrderAndAbort(p)
        /\ (Finished(p) /\ exit[p] = 1 /\ OwnArtifact(p) \in Touched(p)) =>
              \/ /\ failedAt[p] \in {"transcribe", "summarize"}
                 /\ ErrorKind(p) = "OSError"
                 /\ fs[OwnArtifact(p)] = << >>
              \/ /\ failedAt[p] = "adjust"
                 /\ ErrorKind(p) = "CalledProcessError"
                 /\ fs[OwnArtifact(p)] = PartialAudio
        /\ (Finished(p) /\ failedAt[p] = "transcribe"
              /\ ErrorKind(p) = "APIError") =>
              ~ Exists(TranscriptOf(ProcessedPath(src, duration)))

\* the summarization call failed after the run had sped the audio up and
\* written the transcript: both files are still there
C6_Witness ==
    /\ Finished("A")
    /\ failedAt["A"] = "summarize"
    /\ ErrorKind("A") = "APIError"
    /\ calls["A"].adjust = 1
    /\ calls["A"].transcribe = 1
    /\ exit["A"] = 1

AfterAdjust(p) ==
    \/ pc[p] \in {"transcribe", "t_call", "t_open", "t_write", "summarize",
                  "s_open", "s_write"}
    \/ Finished(p) /\ failedAt[p] \in {"transcribe", "summarize", "none"}

\* C7: the speed adjuster is invoked only in a run whose probed duration is
\* over 1500 s and that found no file at <original-stem>.x<multiplier>.mp3;
\* a file found there is reused unchanged without invoking the adjuster; in
\* both cases that path, not the source, is the input of the transcribe and
\* summarize stages.
C7_SpeedAdjusted ==
    \A p \in Procs :
        LET adj == AdjustedName(speed[p])
        IN pc[p] # "idle" =>
           /\ calls[p].adjust <= 1
           /\ calls[p].adjust = 1 =>
                 /\ length_sec[p] > Limit
                 /\ adj \notin DOMAIN fsAtStart[p]
           /\ \A q \in Touched(p) :
                 IsAudioName(q) => q = adj /\ calls[p].adjust = 1
           /\ (speed[p] # 0 /\ adj \in DOMAIN fsAtStart[p]) =>
                 /\ calls[p].adjust = 0
                 /\ pc[p] # "ffmpeg"
                 /\ fs[adj] = fsAtStart[p][adj]
                 /\ processed_audio[p] = adj
           /\ (length_sec[p] > Limit /\ AfterAdjust(p)) =>
                 /\ speed[p] = new_speed(length_sec[p])
                 /\ processed_audio[p] = adj
                 /\ processed_audio[p] # src
                 /\ Exists(adj)
                 /\ Touched(p) \subseteq {adj, TranscriptOf(adj), SummaryOf(adj)}
           /\ (src = <<"sermon", ".", "mp3">> /\ speed[p] = 11
                 /\ AfterAdjust(p)) =>
                 processed_audio[p] =
                     <<"sermon", ".", "x", "1", ".", "1", ".", "mp3">>

\* the second run reused the file that the first run's ffmpeg had written
C7_Witness ==
    /\ runs = 2
    /\ exit["A"] = 0
    /\ length_sec["A"] > Limit
    /\ calls["A"].adjust = 0
    /\ fs[processed_audio["A"]] = SpedAudio(speed["A"])

\* C8: whatever the runs do, the audio source is never deleted, created or
\* changed, and none of the files the program writes (the speed-adjusted
\* audio, the transcript, the summary) is at the source's path.
C8_SourceUntouched ==
    /\ Exists(src) => fs[src] = SourceAudio
    /\ \A p \in Procs :
          /\ src \in DOMAIN fsAtStart[p] <=> Exists(src)
          /\ src \notin Touched(p)
          /\ speed[p] # 0 => length_adjusted_audio_file(src, speed[p]) # src
          /\ processed_audio[p] # << >> =>
                /\ transcription_file(processed_audio[p]) # src
                /\ summary_file(processed_audio[p]) # src

\* two runs completed on a source named like a transcript, the first one
\* having written all its files
C8_Witness ==
    /\ runs = 2
    /\ exit["A"] = 0
    /\ src = <<"sermon", ".", "transcript", ".", "txt">>
    /\ fs[src] = SourceAudio
    /\ fs[transcription_file(processed_audio["A"])] \in Transcripts

\* the prompt is framing, instruction, SEO request, transcript
PromptIs(p, instruction) ==
    LET n == Len(prompt[p])
        t == transcript[p]
    IN /\ n = Len(Framing) + Len(instruction) + 2 + Len(t)
       /\ SubSeq(prompt[p], 1, Len(Framing)) = Framing
       /\ SubSeq(prompt[p], Len(Framing) + 1, Len(Framing) + Len(instruction))
             = instruction
       /\ prompt[p][n - Len(t) - 1] = ". "
       /\ prompt[p][n - Len(t)] = SeoRequest[1]
       /\ SubSeq(prompt[p], n - Len(t) + 1, n) = t

\* C9 as claimed: the instruction in the prompt is the caller's string for
\* every string the caller supplies, and the default only when none is.
C9_Original ==
    \A p \in Procs :
        calls[p].summarize = 1 =>
            PromptIs(p, IF instructions[p] = None THEN DefaultInstruction
                        ELSE instructions[p][1])

\* C9: the prompt is the framing sentence, the instruction, the request for
\* an SEO keyphrase and the transcript at the end; the instruction is the
\* caller's string, unmodified, when the caller supplies a non-empty one,
\* and the default when none or the empty string is supplied.
C9_PromptOrder ==
    \A p \in Procs :
        calls[p].summarize = 1 =>
            PromptIs(p, IF instructions[p] = None \/ instructions[p] = Some(<< >>)
                        THEN DefaultInstruction
                        ELSE instructions[p][1])

\* a prompt was built from a caller's instruction and a fresh transcript
C9_Witness ==
    /\ calls["A"].summarize = 1
    /\ instructions["A"] = Some(<<"Be", " brief">>)
    /\ transcript["A"] = <<"hello", " world.">>

\* C10 as claimed: when both invocations wrote the transcript, the file
\* holds what the first writer wrote.
C10_Original ==
    Len(writeLog) = 2 =>
        fs[ExpectedTranscript] = writeLog[1].content

\* C10: two concurrent invocations can both pass the existence check and
\* both call the transcription API; the writes are not ordered by a lock
\* and the later one lands on top: once both have written, the file begins
\* with what the last writer wrote, and is exactly that unless the earlier,
\* longer write landed between the last writer's open and its write.
C10_LastWriter ==
    Len(writeLog) = 2 =>
        LET first == writeLog[1]
            last == writeLog[2]
        IN /\ first.proc # last.proc
           /\ Exists(ExpectedTranscript)
           /\ Len(fs[ExpectedTranscript]) >= Len(last.content)
           /\ SubSeq(fs[ExpectedTranscript], 1, Len(last.content))
                 = last.content
           /\ Len(last.content) >= Len(first.content) =>
                 fs[ExpectedTranscript] = last.content
           /\ Len(fs[ExpectedTranscript]) <= Len(first.content)
                 \/ Len(fs[ExpectedTranscript]) = Len(last.content)

\* both invocations called the API and wrote, and the file holds the second
\* writer's transcript, not the first's
C10_Witness ==
    /\ Len(writeLog) = 2
    /\ calls["A"].transcribe = 1
    /\ calls["B"].transcribe = 1
    /\ writeLog[1].content # writeLog[2].content
    /\ fs[ExpectedTranscript] = writeLog[2].content

====
